---- MODULE Spec2Model ----
(***************************************************************************)
(* Concurrent claim protocol of the coupon system.                         *)
(*                                                                         *)
(* The state is the two MongoDB collections (coupons, claims) and, for     *)
(* each in-flight ClaimCoupon call, its position in                        *)
(* CouponService.ClaimCoupon together with its locals.  Every repository   *)
(* method is one atomic MongoDB command and is one operator here; every    *)
(* step of ClaimCoupon between two commands is one action.                 *)
(*                                                                         *)
(* A coupon's _id is identified with its name: the coupons collection has  *)
(* a unique index on name and nothing deletes a coupon, so names and ids   *)
(* are in bijection.  The claims collection is a multiset of documents     *)
(* keyed by (user_id, coupon_id): claims[<<u, id>>] is the number of       *)
(* documents with that key.                                                *)
(***************************************************************************)
EXTENDS Integers, FiniteSets, TLC

\* ---- bounds ------------------------------------------------------------
NumCalls == 2
NumUsers == 2
MaxStock == 2

Calls == 1..NumCalls
Users == 1..NumUsers
CouponNames == {"FLASH_SALE_2026", "PROMO_SUPER"}

\* ---- error values (pkg/errors/errors.go) ---------------------------------
Nil == "nil"
ErrCouponNotFound == "coupon not found"
ErrCouponAlreadyExists == "coupon already exists"
ErrAlreadyClaimed == "coupon already claimed by this user"
ErrNoStock == "no stock available"
\* any error of the driver that is not one of the domain errors
StorageFault == "storage fault"

Pending == "pending"
NoID == "no id"

VARIABLES
    coupons,      \* coupons collection: name -> document, for the names present
    claims,       \* claims collection: <<user_id, coupon_id>> -> number of documents
    pc,           \* per call: position in ClaimCoupon
    req,          \* per call: the ClaimCouponRequest
    couponID,     \* per call: coupon.ID read by GetCouponByName
    err,          \* per call: the error DecrementStock returned
    ret,          \* per call: the value ClaimCoupon returned, Pending before
    initialStock, \* history: per coupon, the remaining_amount it was created with
    hist,         \* history per call, see NoHist
    ctx,          \* per call: the request context, "live" or "cancelled"
    direct        \* per call: the repository command of a direct call, see NoDirect

vars == <<coupons, claims, pc, req, couponID, err, ret, initialStock, hist,
          ctx, direct>>

NoReq == [user_id |-> 0, coupon_name |-> ""]

\* replay:  a call for the same pair had returned success when it was issued
\* created: CreateClaimIfNotExists returned (true, nil) to this call
\* decremented: this call has invoked DecrementStock
\* releaseFailed: the compensating DeleteClaim of this call returned an error
\* cancelledAt: the position of the call when its context was cancelled
\* orphaned: a call for the same pair had returned with its release failed
\*           when this call was issued
NoHist == [replay |-> FALSE, created |-> FALSE,
           decremented |-> FALSE, releaseFailed |-> FALSE,
           cancelledAt |-> "never", orphaned |-> FALSE]

\* a call other than ClaimCoupon: a repository method called directly (op, id,
\* amount), or GetCouponDetails (op, id = the name asked for) with the fields
\* of its response
NoDirect == [op |-> "none", id |-> NoID, amount |-> 0,
             remaining_amount |-> 0, claimed_by |-> [u \in Users |-> 0]]

\* ---- coupon repository ---------------------------------------------------

\* CouponService.CreateCoupon builds the document; the repository inserts it
NewCoupon(amount) ==
    [amount |-> amount, remaining_amount |-> amount, is_active |-> TRUE]

\* an insert on a collection without the unique index on name: the document
\* takes the place of the one that was there
CreateCouponReplace(cs, name, doc) ==
    [coupons |-> [n \in DOMAIN cs \cup {name} |->
                     IF n = name THEN doc ELSE cs[n]],
     err |-> Nil]

\* InsertOne; the unique index on name turns a second insert into a duplicate
\* key error, reported as ErrCouponAlreadyExists
CreateCouponRepo(cs, name, doc) ==
    IF name \in DOMAIN cs
    THEN [coupons |-> cs, err |-> ErrCouponAlreadyExists]
    ELSE [coupons |-> [n \in DOMAIN cs \cup {name} |->
                          IF n = name THEN doc ELSE cs[n]],
          err |-> Nil]

\* FindOne whose ErrNoDocuments is passed on as it is
GetCouponByNameRaw(cs, name) ==
    IF name \in DOMAIN cs
    THEN [id |-> name, err |-> Nil]
    ELSE [id |-> NoID, err |-> "mongo: no documents in result"]

\* FindOne({name}); ErrNoDocuments is reported as ErrCouponNotFound
GetCouponByName(cs, name) ==
    IF name \in DOMAIN cs
    THEN [id |-> name, err |-> Nil]
    ELSE [id |-> NoID, err |-> ErrCouponNotFound]

\* FindOneAndUpdate with no range condition on remaining_amount
DecrementStockUnchecked(cs, id, amount) ==
    IF id \in DOMAIN cs
    THEN [coupons |-> [cs EXCEPT ![id].remaining_amount = @ - amount],
          err |-> Nil]
    ELSE [coupons |-> cs, err |-> ErrNoStock]

\* FindOneAndUpdate with $gt in place of $gte
DecrementStockStrict(cs, id, amount) ==
    IF id \in DOMAIN cs /\ cs[id].remaining_amount > amount
    THEN [coupons |-> [cs EXCEPT ![id].remaining_amount = @ - amount],
          err |-> Nil]
    ELSE [coupons |-> cs, err |-> ErrNoStock]

\* a decrement that empties a coupon whose stock does not cover the amount
DecrementStockClamp(cs, id, amount) ==
    IF id \in DOMAIN cs /\ cs[id].remaining_amount >= amount
    THEN [coupons |-> [cs EXCEPT ![id].remaining_amount = @ - amount],
          err |-> Nil]
    ELSE IF id \in DOMAIN cs
    THEN [coupons |-> [cs EXCEPT ![id].remaining_amount = 0],
          err |-> ErrNoStock]
    ELSE [coupons |-> cs, err |-> ErrNoStock]

\* an update whose $inc lowers amount together with remaining_amount
DecrementStockTotal(cs, id, amount) ==
    IF id \in DOMAIN cs /\ cs[id].remaining_amount >= amount
    THEN [coupons |-> [cs EXCEPT ![id].remaining_amount = @ - amount,
                                 ![id].amount = @ - amount],
          err |-> Nil]
    ELSE [coupons |-> cs, err |-> ErrNoStock]

\* FindOneAndUpdate whose filter also asks for is_active: true
DecrementStockActive(cs, id, amount) ==
    IF id \in DOMAIN cs /\ cs[id].remaining_amount >= amount
                        /\ cs[id].is_active
    THEN [coupons |-> [cs EXCEPT ![id].remaining_amount = @ - amount],
          err |-> Nil]
    ELSE [coupons |-> cs, err |-> ErrNoStock]

\* FindOneAndUpdate({_id, remaining_amount >= amount}, $inc -amount):
\* one atomic command; no matching document is reported as ErrNoStock
DecrementStock(cs, id, amount) ==
    IF id \in DOMAIN cs /\ cs[id].remaining_amount >= amount
    THEN [coupons |-> [cs EXCEPT ![id].remaining_amount = @ - amount],
          err |-> Nil]
    ELSE [coupons |-> cs, err |-> ErrNoStock]

\* ---- claim repository ----------------------------------------------------

\* an insert that does not look for an existing document
CreateClaimAlways(cl, user, id) ==
    [claims |-> [cl EXCEPT ![<<user, id>>] = @ + 1],
     created |-> TRUE, err |-> Nil]

\* an upsert that reports the existing document and inserts one all the same
CreateClaimDuplicating(cl, user, id) ==
    [claims |-> [cl EXCEPT ![<<user, id>>] = @ + 1],
     created |-> cl[<<user, id>>] = 0,
     err |-> IF cl[<<user, id>>] = 0 THEN Nil ELSE ErrAlreadyClaimed]

\* an upsert filtered on user_id alone: one claim per user, whatever the coupon
CreateClaimPerUser(cl, user, id) ==
    IF \A n \in CouponNames : cl[<<user, n>>] = 0
    THEN [claims |-> [cl EXCEPT ![<<user, id>>] = @ + 1],
          created |-> TRUE, err |-> Nil]
    ELSE [claims |-> cl, created |-> FALSE, err |-> ErrAlreadyClaimed]

\* UpdateOne(filter {user_id, coupon_id}, $setOnInsert, upsert): inserts one
\* document when none matches (UpsertedCount = 1), otherwise changes nothing
CreateClaimIfNotExists(cl, user, id) ==
    IF cl[<<user, id>>] = 0
    THEN [claims |-> [cl EXCEPT ![<<user, id>>] = @ + 1],
          created |-> TRUE, err |-> Nil]
    ELSE [claims |-> cl, created |-> FALSE, err |-> ErrAlreadyClaimed]

\* a delete that reports a pair without a document as an error
DeleteClaimStrict(cl, user, id) ==
    IF cl[<<user, id>>] > 0
    THEN [claims |-> [cl EXCEPT ![<<user, id>>] = @ - 1], err |-> Nil]
    ELSE [claims |-> cl, err |-> "claim not found"]

\* DeleteOne({user_id, coupon_id}): removes at most one matching document
DeleteClaim(cl, user, id) ==
    [claims |-> [cl EXCEPT ![<<user, id>>] = IF @ > 0 THEN @ - 1 ELSE 0],
     err |-> Nil]

\* Find({coupon_name}): the matching documents, as user -> number of documents
GetClaimsByCouponName(cl, name) ==
    [u \in Users |-> cl[<<u, name>>]]

\* GetCouponDetails: ClaimedBy holds one entry per claim document
ClaimedBy(cl, name) ==
    {u \in Users : GetClaimsByCouponName(cl, name)[u] > 0}

\* ---- initial state -------------------------------------------------------

Init ==
    /\ coupons = [n \in {} |-> NewCoupon(0)]
    /\ claims = [k \in Users \X CouponNames |-> 0]
    /\ pc = [p \in Calls |-> "idle"]
    /\ req = [p \in Calls |-> NoReq]
    /\ couponID = [p \in Calls |-> NoID]
    /\ err = [p \in Calls |-> Nil]
    /\ ret = [p \in Calls |-> Pending]
    /\ initialStock = [n \in {} |-> 0]
    /\ hist = [p \in Calls |-> NoHist]
    /\ ctx = [p \in Calls |-> "live"]
    /\ direct = [p \in Calls |-> NoDirect]

\* ---- CouponService.CreateCoupon -------------------------------------------

CreateCoupon(name, amount) ==
    LET r == CreateCouponRepo(coupons, name, NewCoupon(amount)) IN
    /\ r.err = Nil
    /\ coupons' = r.coupons
    /\ initialStock' = [n \in DOMAIN initialStock \cup {name} |->
                           IF n = name THEN amount ELSE initialStock[n]]
    /\ UNCHANGED <<claims, pc, req, couponID, err, ret, hist, ctx, direct>>

\* ---- CouponService.ClaimCoupon --------------------------------------------

Return(p, e) ==
    /\ pc' = [pc EXCEPT ![p] = "done"]
    /\ ret' = [ret EXCEPT ![p] = e]

\* The handler receives a request and calls ClaimCoupon.  Call slots are taken
\* in order and users are opaque identifiers taken in order, which leaves one
\* representative of every behaviour up to renaming of slots and users.
Issue(p, user, name) ==
    /\ pc[p] = "idle"
    /\ \A q \in Calls : q < p => pc[q] # "idle"
    /\ \A v \in Users : v < user => \E q \in Calls : req[q].user_id = v
    /\ req' = [req EXCEPT ![p] = [user_id |-> user, coupon_name |-> name]]
    /\ hist' = [hist EXCEPT
                  ![p].replay = \E q \in Calls :
                      /\ ret[q] = Nil
                      /\ req[q] = [user_id |-> user, coupon_name |-> name],
                  ![p].orphaned = \E q \in Calls :
                      /\ pc[q] = "done"
                      /\ hist[q].releaseFailed
                      /\ req[q] = [user_id |-> user, coupon_name |-> name]]

\* GetCouponByName finding the absent coupon
GetCouponLenient(p, user, name) ==
    /\ Issue(p, user, name)
    /\ couponID' = [couponID EXCEPT ![p] = name]
    /\ pc' = [pc EXCEPT ![p] = "reserve"]
    /\ UNCHANGED <<ret, coupons, claims, err, initialStock, ctx, direct>>

\* lines 37-40: the call's first command
GetCoupon(p, user, name) ==
    /\ Issue(p, user, name)
    /\ LET r == GetCouponByName(coupons, name) IN
          IF r.err # Nil
          THEN /\ Return(p, r.err)
               /\ UNCHANGED couponID
          ELSE /\ couponID' = [couponID EXCEPT ![p] = r.id]
               /\ pc' = [pc EXCEPT ![p] = "reserve"]
               /\ UNCHANGED ret
    /\ UNCHANGED <<coupons, claims, err, initialStock, ctx, direct>>

\* the reservation's result is not looked at
ReserveUnchecked(p) ==
    /\ pc[p] = "reserve"
    /\ ctx[p] = "live"
    /\ LET r == CreateClaimIfNotExists(claims, req[p].user_id, couponID[p]) IN
          /\ claims' = r.claims
          /\ pc' = [pc EXCEPT ![p] = "decrement"]
          /\ hist' = [hist EXCEPT ![p].created = r.created]
          /\ UNCHANGED ret
    /\ UNCHANGED <<coupons, req, couponID, err, initialStock, ctx, direct>>

\* lines 45-58
Reserve(p) ==
    /\ pc[p] = "reserve"
    /\ ctx[p] = "live"
    /\ LET r == CreateClaimIfNotExists(claims, req[p].user_id, couponID[p]) IN
          /\ claims' = r.claims
          /\ IF r.err # Nil
             THEN Return(p, r.err) /\ UNCHANGED hist
             ELSE IF ~r.created
             THEN Return(p, ErrAlreadyClaimed) /\ UNCHANGED hist
             ELSE /\ pc' = [pc EXCEPT ![p] = "decrement"]
                  /\ hist' = [hist EXCEPT ![p].created = TRUE]
                  /\ UNCHANGED ret
    /\ UNCHANGED <<coupons, req, couponID, err, initialStock, ctx, direct>>

\* line 62
Decrement(p) ==
    /\ pc[p] = "decrement"
    /\ ctx[p] = "live"
    /\ LET r == DecrementStock(coupons, couponID[p], 1) IN
          /\ coupons' = r.coupons
          /\ hist' = [hist EXCEPT ![p].decremented = TRUE]
          /\ IF r.err # Nil
             THEN /\ err' = [err EXCEPT ![p] = r.err]
                  /\ pc' = [pc EXCEPT ![p] = "compensate"]
                  /\ UNCHANGED ret
             ELSE /\ Return(p, Nil)
                  /\ UNCHANGED err
    /\ UNCHANGED <<claims, req, couponID, initialStock, ctx, direct>>

\* a compensation that also gives a unit back to the stock
CompensateRestock(p) ==
    /\ pc[p] = "compensate"
    /\ ctx[p] = "live"
    /\ claims' = DeleteClaim(claims, req[p].user_id, couponID[p]).claims
    /\ coupons' = [coupons EXCEPT ![couponID[p]].remaining_amount = @ + 1]
    /\ Return(p, err[p])
    /\ UNCHANGED <<req, couponID, err, initialStock, hist, ctx, direct>>

\* a failed decrement after which the claim document is left in place
CompensateKeep(p) ==
    /\ pc[p] = "compensate"
    /\ ctx[p] = "live"
    /\ Return(p, err[p])
    /\ UNCHANGED <<coupons, claims, req, couponID, err, initialStock, hist,
                   ctx, direct>>

\* lines 64-65: the result of DeleteClaim is discarded
Compensate(p) ==
    /\ pc[p] = "compensate"
    /\ ctx[p] = "live"
    /\ claims' = DeleteClaim(claims, req[p].user_id, couponID[p]).claims
    /\ Return(p, err[p])
    /\ UNCHANGED <<coupons, req, couponID, err, initialStock, hist, ctx, direct>>

Next ==
    \/ \E n \in CouponNames, a \in 0..MaxStock : CreateCoupon(n, a)
    \/ \E p \in Calls, u \in Users, n \in CouponNames : GetCoupon(p, u, n)
    \/ \E p \in Calls : Reserve(p)
    \/ \E p \in Calls : Decrement(p)
    \/ \E p \in Calls : Compensate(p)

\* The stores answer every command.
Spec == Init /\ [][Next]_vars

\* ---- storage faults -------------------------------------------------------
\* A command may return a driver error (timeout, cancelled context, network).
\* The server may or may not have applied a write whose reply was lost; a
\* command issued with a context that is already cancelled is not sent.

\* line 37-40 with a driver error
GetCouponFault(p, user, name) ==
    /\ Issue(p, user, name)
    /\ Return(p, StorageFault)
    /\ UNCHANGED <<coupons, claims, couponID, err, initialStock, ctx, direct>>

\* line 53-55 with a driver error
ReserveFault(p) ==
    /\ pc[p] = "reserve"
    /\ claims' \in {claims} \cup
                 IF ctx[p] = "live"
                 THEN {CreateClaimIfNotExists(claims, req[p].user_id,
                                              couponID[p]).claims}
                 ELSE {}
    /\ Return(p, StorageFault)
    /\ UNCHANGED <<coupons, req, couponID, err, initialStock, hist, ctx, direct>>

\* line 62 with a driver error
DecrementFault(p) ==
    /\ pc[p] = "decrement"
    /\ coupons' \in {coupons} \cup
                  IF ctx[p] = "live"
                  THEN {DecrementStock(coupons, couponID[p], 1).coupons}
                  ELSE {}
    /\ hist' = [hist EXCEPT ![p].decremented = TRUE]
    /\ err' = [err EXCEPT ![p] = StorageFault]
    /\ pc' = [pc EXCEPT ![p] = "compensate"]
    /\ UNCHANGED <<claims, req, couponID, ret, initialStock, ctx, direct>>

\* a failed release that gives a unit of stock back
CompensateFaultRestock(p) ==
    /\ pc[p] = "compensate"
    /\ claims' = claims
    /\ coupons' = [coupons EXCEPT ![couponID[p]].remaining_amount = @ + 1]
    /\ hist' = [hist EXCEPT ![p].releaseFailed = TRUE]
    /\ Return(p, err[p])
    /\ UNCHANGED <<req, couponID, err, initialStock, ctx, direct>>

\* line 64 with a driver error, discarded by "_ ="
CompensateFault(p) ==
    /\ pc[p] = "compensate"
    /\ claims' \in {claims} \cup
                 IF ctx[p] = "live"
                 THEN {DeleteClaim(claims, req[p].user_id, couponID[p]).claims}
                 ELSE {}
    /\ hist' = [hist EXCEPT ![p].releaseFailed = TRUE]
    /\ Return(p, err[p])
    /\ UNCHANGED <<coupons, req, couponID, err, initialStock, ctx, direct>>

NextFault ==
    \/ Next
    \/ \E p \in Calls, u \in Users, n \in CouponNames : GetCouponFault(p, u, n)
    \/ \E p \in Calls : ReserveFault(p)
    \/ \E p \in Calls : DecrementFault(p)
    \/ \E p \in Calls : CompensateFault(p)

SpecFault == Init /\ [][NextFault]_vars

\* ---- scheduling ----------------------------------------------------------
\* Each call runs in its own goroutine and a store that is up answers every
\* command: a call that can take its next step eventually takes a step.
\* Nothing obliges a fault to happen.
Step(p) == Reserve(p) \/ Decrement(p) \/ Compensate(p)

FairSpecFault == SpecFault /\ \A p \in Calls : WF_vars(Step(p))

\* ---- cancellation --------------------------------------------------------
\* The handler passes c.Request.Context() to ClaimCoupon, which passes it to
\* every repository command; the server cancels it when the client goes away.
Cancel(p) ==
    /\ pc[p] \in {"reserve", "decrement", "compensate"}
    /\ ctx[p] = "live"
    /\ ctx' = [ctx EXCEPT ![p] = "cancelled"]
    /\ hist' = [hist EXCEPT ![p].cancelledAt = pc[p]]
    /\ UNCHANGED <<coupons, claims, pc, req, couponID, err, ret,
                   initialStock, direct>>

\* a command issued with the cancelled context returns the context's error
Cancelled(p) ==
    /\ ctx[p] = "cancelled"
    /\ ReserveFault(p) \/ DecrementFault(p) \/ CompensateFault(p)

\* The only driver errors are those of cancelled contexts.
NextCancel ==
    \/ Next
    \/ \E p \in Calls : Cancel(p)
    \/ \E p \in Calls : Cancelled(p)

SpecCancel == Init /\ [][NextCancel]_vars

\* Only the compensating DeleteClaim may fail.
NextReleaseFault ==
    \/ Next
    \/ \E p \in Calls : CompensateFault(p)

SpecReleaseFault == Init /\ [][NextReleaseFault]_vars

\* ---- the repository called directly --------------------------------------
\* The repository methods are exported through the CouponRepository interface
\* and can be driven without the service, as a repository test does: the
\* collection is seeded with coupons as CreateCoupon writes them, then several
\* goroutines call DecrementStock, each call being one FindOneAndUpdate that
\* the server executes atomically at some moment after the call was made.

InitRepo ==
    /\ \E S \in SUBSET CouponNames :
          /\ initialStock \in [S -> 0..MaxStock]
          /\ coupons = [n \in S |-> NewCoupon(initialStock[n])]
    /\ claims = [k \in Users \X CouponNames |-> 0]
    /\ pc = [p \in Calls |-> "idle"]
    /\ req = [p \in Calls |-> NoReq]
    /\ couponID = [p \in Calls |-> NoID]
    /\ err = [p \in Calls |-> Nil]
    /\ ret = [p \in Calls |-> Pending]
    /\ hist = [p \in Calls |-> NoHist]
    /\ ctx = [p \in Calls |-> "live"]
    /\ direct = [p \in Calls |-> NoDirect]

\* a goroutine calls DecrementStock(ctx, id, amount)
CallDecrementStock(p, id, amount) ==
    /\ pc[p] = "idle"
    /\ \A q \in Calls : q < p => pc[q] # "idle"
    /\ direct' = [direct EXCEPT ![p] = [NoDirect EXCEPT
                      !.op = "DecrementStock", !.id = id, !.amount = amount]]
    /\ pc' = [pc EXCEPT ![p] = "repo"]
    /\ UNCHANGED <<coupons, claims, req, couponID, err, ret, initialStock,
                   hist, ctx>>

\* mongodb_coupon.go lines 54-73: the command runs and the method returns
DoDecrementStock(p) ==
    /\ pc[p] = "repo"
    /\ direct[p].op = "DecrementStock"
    /\ LET r == DecrementStock(coupons, direct[p].id, direct[p].amount) IN
          /\ coupons' = r.coupons
          /\ Return(p, r.err)
    /\ UNCHANGED <<claims, req, couponID, err, initialStock, hist, ctx,
                   direct>>

NextRepo ==
    \/ \E p \in Calls, n \in CouponNames, a \in 1..MaxStock :
          CallDecrementStock(p, n, a)
    \/ \E p \in Calls : DoDecrementStock(p)

SpecRepo == InitRepo /\ [][NextRepo]_vars

\* ---- the claim repository called directly --------------------------------
\* ClaimRepository is exported as well.  Starting from the empty collections,
\* goroutines call CreateClaimIfNotExists and DeleteClaim for a user and a
\* coupon id; each call is one UpdateOne or DeleteOne that the server executes
\* atomically at some moment after the call was made.  The repository does
\* not look at the coupons collection.

CallClaimRepo(p, op, user, id) ==
    /\ pc[p] = "idle"
    /\ \A q \in Calls : q < p => pc[q] # "idle"
    /\ \A v \in Users : v < user => \E q \in Calls : req[q].user_id = v
    /\ direct' = [direct EXCEPT ![p] = [NoDirect EXCEPT
                      !.op = op, !.id = id]]
    /\ req' = [req EXCEPT ![p] = [user_id |-> user, coupon_name |-> id]]
    /\ pc' = [pc EXCEPT ![p] = "repo"]
    /\ UNCHANGED <<coupons, claims, couponID, err, ret, initialStock, hist,
                   ctx>>

\* mongodb_claim.go lines 41-67
DoCreateClaimIfNotExists(p) ==
    /\ pc[p] = "repo"
    /\ direct[p].op = "CreateClaimIfNotExists"
    /\ LET r == CreateClaimIfNotExists(claims, req[p].user_id, direct[p].id) IN
          /\ claims' = r.claims
          /\ hist' = [hist EXCEPT ![p].created = r.created]
          /\ Return(p, r.err)
    /\ UNCHANGED <<coupons, req, couponID, err, initialStock, ctx, direct>>

\* mongodb_claim.go lines 72-76
DoDeleteClaim(p) ==
    /\ pc[p] = "repo"
    /\ direct[p].op = "DeleteClaim"
    /\ LET r == DeleteClaim(claims, req[p].user_id, direct[p].id) IN
          /\ claims' = r.claims
          /\ Return(p, r.err)
    /\ UNCHANGED <<coupons, req, couponID, err, initialStock, hist, ctx,
                   direct>>

NextClaimRepo ==
    \/ \E p \in Calls, u \in Users, n \in CouponNames :
          CallClaimRepo(p, "CreateClaimIfNotExists", u, n)
    \/ \E p \in Calls, u \in Users, n \in CouponNames :
          CallClaimRepo(p, "DeleteClaim", u, n)
    \/ \E p \in Calls : DoCreateClaimIfNotExists(p)
    \/ \E p \in Calls : DoDeleteClaim(p)

SpecClaimRepo == Init /\ [][NextClaimRepo]_vars

\* ---- CouponService.GetCouponDetails ---------------------------------------
\* Two commands: the coupon is read by name, then its claims are read by
\* coupon_name; ClaimCoupon calls may run between the two.  A details call
\* takes a call slot; err[p] keeps the error the repository returned to it.

\* the response under construction
Details(name) ==
    [NoDirect EXCEPT !.op = "GetCouponDetails", !.id = name]

\* lines 101-104: whatever error the lookup returned, ErrCouponNotFound
DetailsLookup(p, name) ==
    /\ pc[p] = "idle"
    /\ \A q \in Calls : q < p => pc[q] # "idle"
    /\ LET r == GetCouponByName(coupons, name) IN
          IF r.err # Nil
          THEN /\ err' = [err EXCEPT ![p] = r.err]
               /\ Return(p, ErrCouponNotFound)
               /\ direct' = [direct EXCEPT ![p] = Details(name)]
          ELSE /\ pc' = [pc EXCEPT ![p] = "details"]
               /\ direct' = [direct EXCEPT ![p] =
                     [Details(name) EXCEPT
                        !.amount = coupons[name].amount,
                        !.remaining_amount = coupons[name].remaining_amount]]
               /\ UNCHANGED <<err, ret>>
    /\ UNCHANGED <<coupons, claims, req, couponID, initialStock, hist, ctx>>

\* lines 106-121: one entry of claimed_by per claim document found
DetailsFind(p) ==
    /\ pc[p] = "details"
    /\ direct' = [direct EXCEPT ![p].claimed_by =
                      GetClaimsByCouponName(claims, direct[p].id)]
    /\ Return(p, Nil)
    /\ UNCHANGED <<coupons, claims, req, couponID, err, initialStock, hist,
                   ctx>>

\* lines 101-104 when the lookup returns a driver error
DetailsLookupFault(p, name) ==
    /\ pc[p] = "idle"
    /\ \A q \in Calls : q < p => pc[q] # "idle"
    /\ err' = [err EXCEPT ![p] = StorageFault]
    /\ Return(p, ErrCouponNotFound)
    /\ direct' = [direct EXCEPT ![p] = Details(name)]
    /\ UNCHANGED <<coupons, claims, req, couponID, initialStock, hist, ctx>>

\* lines 106-109 when Find returns a driver error
DetailsFindFault(p) ==
    /\ pc[p] = "details"
    /\ err' = [err EXCEPT ![p] = StorageFault]
    /\ Return(p, StorageFault)
    /\ UNCHANGED <<coupons, claims, req, couponID, initialStock, hist, ctx,
                   direct>>

NextDetailsFault ==
    \/ NextFault
    \/ \E p \in Calls, n \in CouponNames : DetailsLookup(p, n)
    \/ \E p \in Calls : DetailsFind(p)
    \/ \E p \in Calls, n \in CouponNames : DetailsLookupFault(p, n)
    \/ \E p \in Calls : DetailsFindFault(p)

SpecDetailsFault == Init /\ [][NextDetailsFault]_vars

\* ---- CreateCoupon calls and their results --------------------------------
\* The CreateCoupon action above is a creation that succeeds.  Here a
\* CreateCoupon call takes a call slot, so that what it returns is kept and
\* several of them can be pending on one name: the call builds the document
\* and the server runs its InsertOne at some moment after the call was made.

\* lines 72-90: the request is turned into a document
CallCreateCoupon(p, name, amount) ==
    /\ pc[p] = "idle"
    /\ \A q \in Calls : q < p => pc[q] # "idle"
    /\ direct' = [direct EXCEPT ![p] = [NoDirect EXCEPT
                      !.op = "CreateCoupon", !.id = name, !.amount = amount]]
    /\ pc' = [pc EXCEPT ![p] = "create"]
    /\ UNCHANGED <<coupons, claims, req, couponID, err, ret, initialStock,
                   hist, ctx>>

\* lines 92-96 and mongodb_coupon.go lines 26-36
DoCreateCoupon(p) ==
    /\ pc[p] = "create"
    /\ LET r == CreateCouponRepo(coupons, direct[p].id,
                                 NewCoupon(direct[p].amount)) IN
          /\ coupons' = r.coupons
          /\ initialStock' =
                 IF r.err = Nil
                 THEN [n \in DOMAIN initialStock \cup {direct[p].id} |->
                          IF n = direct[p].id THEN direct[p].amount
                          ELSE initialStock[n]]
                 ELSE initialStock
          /\ Return(p, r.err)
    /\ UNCHANGED <<claims, req, couponID, err, hist, ctx, direct>>

NextCreate ==
    \/ Next
    \/ \E p \in Calls, n \in CouponNames, a \in 0..MaxStock :
          CallCreateCoupon(p, n, a)
    \/ \E p \in Calls : DoCreateCoupon(p)

SpecCreate == Init /\ [][NextCreate]_vars

\* ---- the service as a whole ----------------------------------------------
\* ClaimCoupon, GetCouponDetails and CreateCoupon calls side by side, with
\* healthy stores: every operation the three endpoints can start.
NextService ==
    \/ Next
    \/ \E p \in Calls, n \in CouponNames : DetailsLookup(p, n)
    \/ \E p \in Calls : DetailsFind(p)
    \/ \E p \in Calls, n \in CouponNames, a \in 0..MaxStock :
          CallCreateCoupon(p, n, a)
    \/ \E p \in Calls : DoCreateCoupon(p)

SpecService == Init /\ [][NextService]_vars

\* ---- is_active and expired_at ---------------------------------------------
\* A coupon document carries is_active and expired_at (model.Coupon).
\* CreateCoupon writes is_active true and the expired_at of the request, which
\* may lie in the past; an operator deactivates a coupon by writing is_active
\* false to the document.  Here the collection starts with documents of any
\* stock, either flag and an expiry before or after the present moment, and
\* the present moment may pass the expiry of a coupon while calls run.
ExpiryValues == {"past", "future"}

InitFlags ==
    /\ \E S \in SUBSET CouponNames :
          /\ initialStock \in [S -> 0..MaxStock]
          /\ \E act \in [S -> BOOLEAN], exp \in [S -> ExpiryValues] :
                coupons = [n \in S |->
                              [amount |-> initialStock[n],
                               remaining_amount |-> initialStock[n],
                               is_active |-> act[n],
                               expired_at |-> exp[n]]]
    /\ claims = [k \in Users \X CouponNames |-> 0]
    /\ pc = [p \in Calls |-> "idle"]
    /\ req = [p \in Calls |-> NoReq]
    /\ couponID = [p \in Calls |-> NoID]
    /\ err = [p \in Calls |-> Nil]
    /\ ret = [p \in Calls |-> Pending]
    /\ hist = [p \in Calls |-> NoHist]
    /\ ctx = [p \in Calls |-> "live"]
    /\ direct = [p \in Calls |-> NoDirect]

\* the present moment passes the expired_at of a coupon
Expire(name) ==
    /\ name \in DOMAIN coupons
    /\ coupons[name].expired_at = "future"
    /\ coupons' = [coupons EXCEPT ![name].expired_at = "past"]
    /\ UNCHANGED <<claims, pc, req, couponID, err, ret, initialStock, hist,
                   ctx, direct>>

NextFlags ==
    \/ \E p \in Calls, u \in Users, n \in CouponNames : GetCoupon(p, u, n)
    \/ \E p \in Calls : Reserve(p)
    \/ \E p \in Calls : Decrement(p)
    \/ \E p \in Calls : Compensate(p)
    \/ \E n \in CouponNames : Expire(n)

SpecFlags == InitFlags /\ [][NextFlags]_vars

\* the collections that differ from cs in is_active and expired_at only
FlagVariants(cs) ==
    {[n \in DOMAIN cs |-> [cs[n] EXCEPT !.is_active = act[n],
                                        !.expired_at = exp[n]]] :
        act \in [DOMAIN cs -> BOOLEAN], exp \in [DOMAIN cs -> ExpiryValues]}

\* a collection without is_active and expired_at
Unflagged(cs) ==
    [n \in DOMAIN cs |-> [amount |-> cs[n].amount,
                          remaining_amount |-> cs[n].remaining_amount]]

\* ---- claimCouponHandler ---------------------------------------------------
\* a switch that answers ErrNoStock as it answers ErrAlreadyClaimed
claimCouponStatusMerged(e) ==
    CASE e = Nil -> 200
      [] e = ErrAlreadyClaimed -> 409
      [] e = ErrNoStock -> 409
      [] e = ErrCouponNotFound -> 404
      [] OTHER -> 500

\* the status code the handler answers for what ClaimCoupon returned
claimCouponStatus(e) ==
    CASE e = Nil -> 200
      [] e = ErrAlreadyClaimed -> 409
      [] e = ErrNoStock -> 400
      [] e = ErrCouponNotFound -> 404
      [] OTHER -> 500

\* ---- derived sets ---------------------------------------------------------

Returned(name, e) ==
    {p \in Calls : req[p].coupon_name = name /\ ret[p] = e}

ReturnedTo(user, name, e) ==
    {p \in Returned(name, e) : req[p].user_id = user}

CallsOn(name) == {p \in Calls : req[p].coupon_name = name}

AllReturned == \A p \in Calls : pc[p] = "done"

Records(name) == [u \in Users |-> claims[<<u, name>>]]

RECURSIVE SumOver(_, _)
SumOver(f, S) ==
    IF S = {} THEN 0
    ELSE LET x == CHOOSE y \in S : TRUE IN f[x] + SumOver(f, S \ {x})

NumRecords(name) == SumOver(Records(name), Users)

TypeOK ==
    /\ DOMAIN coupons \subseteq CouponNames
    /\ \A n \in DOMAIN coupons : coupons[n].remaining_amount \in Int
    /\ \A k \in Users \X CouponNames : claims[k] \in Nat
    /\ \A p \in Calls : pc[p] \in {"idle", "reserve", "decrement",
                                   "compensate", "repo", "details",
                                   "create", "done"}

Pair(p) == <<req[p].user_id, req[p].coupon_name>>

\* every call on the coupon found the coupon
IssuedOnExisting(name) == \A p \in CallsOn(name) : couponID[p] = name

\* the calls on the coupon come from pairwise distinct users
DistinctUsersOn(name) ==
    \A p, q \in CallsOn(name) : p # q => req[p].user_id # req[q].user_id

\* ---- C1 -------------------------------------------------------------------
\* C1: no overselling.  In every reachable state, storage faults included,
\* the number of ClaimCoupon calls that returned success for a coupon is at
\* most the stock the coupon was created with.
C1_NoOverselling ==
    \A n \in DOMAIN coupons :
        Cardinality(Returned(n, Nil)) <= initialStock[n]

\* a coupon whose whole stock was handed out and that then refused a caller
C1_Witness ==
    \E n \in DOMAIN coupons :
        /\ initialStock[n] >= 1
        /\ Cardinality(Returned(n, Nil)) = initialStock[n]
        /\ Returned(n, ErrNoStock) # {}

\* ---- C2 -------------------------------------------------------------------
\* C2: no double claim.  For every (user, coupon) pair at most one ClaimCoupon
\* call ever returns success, whatever the interleaving and the stock.
C2_NoDoubleClaim ==
    \A u \in Users, n \in CouponNames :
        Cardinality(ReturnedTo(u, n, Nil)) <= 1

\* one user called twice for a coupon with stock left: one success, one refusal
C2_Witness ==
    \E u \in Users, n \in DOMAIN coupons :
        /\ ReturnedTo(u, n, Nil) # {}
        /\ ReturnedTo(u, n, ErrAlreadyClaimed) # {}
        /\ coupons[n].remaining_amount >= 1

\* ---- C3 -------------------------------------------------------------------
\* C3: ledger uniqueness.  In every reachable state the claims collection
\* holds at most one document per (user_id, coupon_id).
C3_LedgerUnique ==
    \A k \in Users \X CouponNames : claims[k] <= 1

\* a second reservation of a pair ran while the first one's document was held
C3_Witness ==
    \E p, q \in Calls :
        /\ p # q
        /\ Pair(p) = Pair(q)
        /\ pc[p] = "decrement"
        /\ ret[q] = ErrAlreadyClaimed
        /\ claims[Pair(p)] = 1

\* ---- C4 -------------------------------------------------------------------
\* C4: stock bounds.  In every reachable state every coupon has
\* 0 <= remaining_amount <= the stock it was created with.
C4_StockBounds ==
    \A n \in DOMAIN coupons :
        /\ 0 <= coupons[n].remaining_amount
        /\ coupons[n].remaining_amount <= initialStock[n]

\* a decrement was refused on a coupon that had stock and is now at zero
C4_Witness ==
    \E p \in Calls :
        /\ err[p] = ErrNoStock
        /\ couponID[p] \in DOMAIN coupons
        /\ initialStock[couponID[p]] >= 1
        /\ coupons[couponID[p]].remaining_amount = 0

\* ---- C5 -------------------------------------------------------------------
\* the flash-sale scenario on coupon n is over: all calls have returned, the
\* N calls on n came from distinct users after n was created, N >= K = stock
FlashSaleOver(n) ==
    /\ AllReturned
    /\ IssuedOnExisting(n)
    /\ DistinctUsersOn(n)
    /\ Cardinality(CallsOn(n)) >= initialStock[n]

\* C5: flash-sale outcome.  With healthy stores, once N >= K calls by distinct
\* users on a coupon created with K units have all returned, exactly K
\* returned success and N-K returned ErrNoStock, remaining_amount is 0 and
\* the coupon has exactly K claim documents.
C5_FlashSale ==
    \A n \in DOMAIN coupons :
        FlashSaleOver(n) =>
            /\ Cardinality(Returned(n, Nil)) = initialStock[n]
            /\ Cardinality(Returned(n, ErrNoStock))
                   = Cardinality(CallsOn(n)) - initialStock[n]
            /\ coupons[n].remaining_amount = 0
            /\ NumRecords(n) = initialStock[n]

\* more callers than units, at least one unit
C5_Witness ==
    \E n \in DOMAIN coupons :
        /\ FlashSaleOver(n)
        /\ initialStock[n] >= 1
        /\ Cardinality(CallsOn(n)) > initialStock[n]

\* ---- C6 -------------------------------------------------------------------
\* the double-dip scenario of user u on coupon n is over: all calls have
\* returned, every call on n is by u and was issued after n was created with
\* at least one unit
DoubleDipOver(u, n) ==
    /\ AllReturned
    /\ CallsOn(n) # {}
    /\ IssuedOnExisting(n)
    /\ \A p \in CallsOn(n) : req[p].user_id = u
    /\ initialStock[n] >= 1

\* C6: double-dip outcome.  With healthy stores, once the M calls of one user
\* on a coupon with stock have all returned, exactly one returned success and
\* M-1 returned ErrAlreadyClaimed, remaining_amount dropped by exactly 1 and
\* the user has exactly one entry in claimed_by.
C6_DoubleDip ==
    \A u \in Users, n \in DOMAIN coupons :
        DoubleDipOver(u, n) =>
            /\ Cardinality(Returned(n, Nil)) = 1
            /\ Cardinality(Returned(n, ErrAlreadyClaimed))
                   = Cardinality(CallsOn(n)) - 1
            /\ coupons[n].remaining_amount = initialStock[n] - 1
            /\ GetClaimsByCouponName(claims, n)[u] = 1

C6_Witness ==
    \E u \in Users, n \in DOMAIN coupons :
        /\ DoubleDipOver(u, n)
        /\ Cardinality(CallsOn(n)) >= 2

\* ---- C7 -------------------------------------------------------------------
\* C7: compensation correctness.  A call whose reservation succeeded and whose
\* DecrementStock found no stock returns ErrNoStock, and once it has returned
\* (no other call of the same user on the same coupon being around) the pair
\* has no claim document, so the user is not in claimed_by.
C7_Compensation ==
    \A p \in Calls :
        ( /\ hist[p].created
          /\ err[p] = ErrNoStock
          /\ pc[p] = "done"
          /\ \A q \in Calls \ {p} : req[q] # req[p] )
        => /\ ret[p] = ErrNoStock
           /\ claims[Pair(p)] = 0
           /\ req[p].user_id \notin ClaimedBy(claims, req[p].coupon_name)

\* ---- C8 -------------------------------------------------------------------
\* C8: idempotence on success.  With healthy stores, a call issued for a pair
\* for which a call has already returned success changes neither the coupons
\* nor the claims in any of its steps, and returns ErrAlreadyClaimed.
C8_Idempotent ==
    [][\A p \in Calls :
          (hist[p].replay /\ pc'[p] # pc[p]) =>
              /\ coupons' = coupons
              /\ claims' = claims
              /\ pc'[p] = "done" => ret'[p] = ErrAlreadyClaimed]_vars

C8_Witness ==
    \E p \in Calls : hist[p].replay /\ ret[p] = ErrAlreadyClaimed

C10_NotFound ==
    [][\A p \in Calls :
          ( /\ pc[p] = "idle"
            /\ pc'[p] # "idle"
            /\ req'[p].coupon_name \notin DOMAIN coupons )
          => /\ pc'[p] = "done"
             /\ ret'[p] = ErrCouponNotFound
             /\ coupons' = coupons
             /\ claims' = claims]_vars

\* a call returned ErrCouponNotFound while the other coupon had claims
C10_Witness ==
    \E p \in Calls :
        /\ ret[p] = ErrCouponNotFound
        /\ hist[p].created = FALSE
        /\ \E k \in Users \X CouponNames : claims[k] = 1
\* ---- C11 ------------------------------------------------------------------
\* C11: a call that returns ErrAlreadyClaimed has no effect.  With or without
\* storage faults, the step that returns ErrAlreadyClaimed changes neither
\* the coupons nor the claims, and the call that made it has neither created
\* a claim document nor invoked DecrementStock.
C11_AlreadyClaimedFrame ==
    /\ [][\A p \in Calls :
             (ret[p] = Pending /\ ret'[p] = ErrAlreadyClaimed) =>
                 /\ coupons' = coupons
                 /\ claims' = claims]_vars
    /\ [](\A p \in Calls :
             ret[p] = ErrAlreadyClaimed =>
                 ~hist[p].created /\ ~hist[p].decremented)

\* a refused call next to a successful one that took exactly one unit
C11_Witness ==
    \E p, q \in Calls :
        /\ ret[q] = ErrAlreadyClaimed
        /\ ret[p] = Nil
        /\ Pair(p) = Pair(q)
        /\ coupons[couponID[p]].remaining_amount = initialStock[couponID[p]] - 1
\* ---- C12 ------------------------------------------------------------------
\* C12: a failed release is never swallowed.  A call whose compensating
\* DeleteClaim returned an error returns something else than what it returns
\* after a successful compensation, which is the error of DecrementStock.
C12_ReleaseSurfaced ==
    \A p \in Calls :
        (pc[p] = "done" /\ hist[p].releaseFailed) => ret[p] # err[p]
\* ---- C13 ------------------------------------------------------------------
\* C13: cancellation safety.  A call whose context was cancelled between its
\* successful reservation and its DecrementStock, and which is the only call
\* on its coupon, ends with the stock decremented or with its claim document
\* removed.
C13_CancelSafe ==
    \A p \in Calls :
        ( /\ pc[p] = "done"
          /\ hist[p].cancelledAt = "decrement"
          /\ CallsOn(req[p].coupon_name) = {p} )
        => \/ coupons[couponID[p]].remaining_amount
                  < initialStock[couponID[p]]
           \/ claims[Pair(p)] = 0
\* ---- C14 ------------------------------------------------------------------
Outcomes == {Nil, ErrAlreadyClaimed, ErrNoStock, ErrCouponNotFound}

\* C14, as stated: every returned call returned one of the four outcomes.
C14_FourOutcomes ==
    \A p \in Calls : pc[p] = "done" => ret[p] \in Outcomes

\* C14, amended: under fair scheduling every call that was issued returns,
\* so that from some point on no call is in flight, and what a call returns
\* is one of the four outcomes or the error of a command that failed.
C14_Terminates ==
    /\ <>[](\A p \in Calls : pc[p] \in {"idle", "done"})
    /\ [](\A p \in Calls :
             pc[p] = "done" <=> ret[p] \in Outcomes \cup {StorageFault})

\* one call returned a driver error, the other one of the four outcomes
C14_Witness ==
    \E p, q \in Calls :
        /\ ret[p] = StorageFault
        /\ hist[p].decremented
        /\ ret[q] \in Outcomes
\* ---- C15 ------------------------------------------------------------------
\* no ClaimCoupon call is between its lookup and its return
Quiescent == \A p \in Calls : pc[p] \in {"idle", "done"}

\* C15: quiescent consistency.  Whenever no call is in flight, every coupon
\* has as many claim documents as units were taken from its stock, and the
\* users with a claim document on it are the users to whom a call on it
\* returned nil.
C15_QuiescentConsistency ==
    Quiescent =>
        \A n \in DOMAIN coupons :
            /\ NumRecords(n) = initialStock[n] - coupons[n].remaining_amount
            /\ ClaimedBy(claims, n) =
                   {u \in Users : ReturnedTo(u, n, Nil) # {}}
\* ---- C16 ------------------------------------------------------------------
\* C16: all-or-nothing claim.  No state contains the claim document of an
\* attempt whose stock decrement has not been applied: a call that has made
\* its reservation and has not yet had DecrementStock succeed has no claim
\* document in the collection that other callers read.
C16_AllOrNothing ==
    \A p \in Calls :
        (pc[p] \in {"decrement", "compensate"} /\ hist[p].created)
        => claims[Pair(p)] = 0
Ran(p) == pc[p] = "repo" /\ pc'[p] = "done"

\* C18: the conditional decrement is a no-op on failure and is one atomic
\* step.  A DecrementStock(id, amount) that runs when the coupon's
\* remaining_amount is below amount returns ErrNoStock and leaves every
\* coupon as it was; one that runs when the stock covers the amount returns
\* nil and takes exactly amount from the stock it was checked against, in
\* the same step.
C18_ConditionalDecrement ==
    [][\A p \in Calls :
          (Ran(p) /\ direct[p].op = "DecrementStock"
                  /\ direct[p].id \in DOMAIN coupons)
          => LET id == direct[p].id
                 amount == direct[p].amount IN
             IF coupons[id].remaining_amount < amount
             THEN /\ ret'[p] = ErrNoStock
                  /\ coupons' = coupons
             ELSE /\ ret'[p] = Nil
                  /\ coupons' = [coupons EXCEPT
                         ![id].remaining_amount = @ - amount]]_vars

\* a decrement of 2 was refused on a coupon holding 1 unit, which it still
\* holds
C18_Witness ==
    \E p \in Calls :
        /\ direct[p].op = "DecrementStock"
        /\ direct[p].id = "FLASH_SALE_2026"
        /\ direct[p].amount = 2
        /\ ret[p] = ErrNoStock
        /\ "FLASH_SALE_2026" \in DOMAIN coupons
        /\ initialStock["FLASH_SALE_2026"] = 1
        /\ coupons["FLASH_SALE_2026"].remaining_amount = 1
UnitDecrements(name) ==
    {p \in Calls : /\ direct[p].op = "DecrementStock"
                   /\ direct[p].id = name
                   /\ direct[p].amount = 1}

\* C20: N concurrent DecrementStock(c, 1) against K < N units.  When the only
\* calls made on a seeded coupon are N decrements of 1, the coupon was seeded
\* with K < N units and all N have returned, then K of them returned nil,
\* N - K returned ErrNoStock and remaining_amount is 0, in whichever order
\* the server ran them.
C20_ExactlyK ==
    \A c \in DOMAIN coupons :
        LET D == UnitDecrements(c)
            N == Cardinality(D)
            K == initialStock[c] IN
        ( /\ \A p \in Calls : direct[p].id = c => p \in D
          /\ \A p \in D : pc[p] = "done"
          /\ K < N )
        => /\ Cardinality({p \in D : ret[p] = Nil}) = K
           /\ Cardinality({p \in D : ret[p] = ErrNoStock}) = N - K
           /\ coupons[c].remaining_amount = 0

\* every call was a decrement of 1 on one coupon seeded with one unit; one
\* was served and the others refused
C20_Witness ==
    \E c \in DOMAIN coupons :
        /\ UnitDecrements(c) = Calls
        /\ initialStock[c] = 1
        /\ AllReturned
        /\ \E p \in Calls :
              /\ ret[p] = Nil
              /\ \A q \in Calls \ {p} : ret[q] = ErrNoStock
        /\ coupons[c].remaining_amount = 0
\* ---- C21 ------------------------------------------------------------------
\* the direct calls of a repository method for a (user, coupon id) pair
DirectCalls(op, k) == {p \in Calls : direct[p].op = op /\ Pair(p) = k}

\* C21: reserve race.  When the calls made for a pair are CreateClaimIfNotExists
\* calls only, made on a collection holding no document of the pair, and all
\* of them have returned, then one of them returned (true, nil), every other
\* one returned (false, ErrAlreadyClaimed), and the pair has one document.
\* No call returns anything else, in whichever order the server ran them.
C21_ReserveRace ==
    \A k \in Users \X CouponNames :
        LET D == DirectCalls("CreateClaimIfNotExists", k) IN
        /\ \A p \in D : pc[p] = "done" =>
               \/ hist[p].created /\ ret[p] = Nil
               \/ ~hist[p].created /\ ret[p] = ErrAlreadyClaimed
        /\ ( /\ D # {}
             /\ DirectCalls("DeleteClaim", k) = {}
             /\ \A p \in D : pc[p] = "done" )
           => /\ Cardinality({p \in D : hist[p].created}) = 1
              /\ claims[k] = 1

\* every call was a CreateClaimIfNotExists for one pair: one created the
\* document and the others were refused
C21_Witness ==
    \E k \in Users \X CouponNames :
        /\ DirectCalls("CreateClaimIfNotExists", k) = Calls
        /\ AllReturned
        /\ \E p \in Calls :
              /\ hist[p].created /\ ret[p] = Nil
              /\ \A q \in Calls \ {p} :
                    ~hist[q].created /\ ret[q] = ErrAlreadyClaimed
\* ---- C22 ------------------------------------------------------------------
\* C22: release is idempotent.  A DeleteClaim that runs when its pair has no
\* claim document returns nil and changes neither collection; and in every
\* state of the claims collection, for every pair, DeleteClaim returns nil
\* and a second DeleteClaim after it returns nil and leaves what the first
\* one left.
C22_ReleaseIdempotent ==
    /\ [][\A p \in Calls :
             (Ran(p) /\ direct[p].op = "DeleteClaim" /\ claims[Pair(p)] = 0)
             => /\ ret'[p] = Nil
                /\ claims' = claims
                /\ coupons' = coupons]_vars
    /\ [](\A u \in Users, n \in CouponNames :
             LET once == DeleteClaim(claims, u, n)
                 twice == DeleteClaim(once.claims, u, n) IN
             /\ once.err = Nil
             /\ twice.err = Nil
             /\ twice.claims = once.claims)

\* two DeleteClaim calls for one pair have both returned nil, the second of
\* them at least on a pair without a document
C22_Witness ==
    \E p, q \in Calls :
        /\ p # q
        /\ Pair(p) = Pair(q)
        /\ direct[p].op = "DeleteClaim" /\ direct[q].op = "DeleteClaim"
        /\ ret[p] = Nil /\ ret[q] = Nil
        /\ claims[Pair(p)] = 0
\* ---- C23 ------------------------------------------------------------------
\* C23: claim permanence.  With or without storage faults, a step that removes
\* a claim document of a pair is the compensation step of a call for that
\* pair whose own reservation created the document and which does not return
\* nil; and the pair of a call that has returned nil keeps its document in
\* every later state.
C23_ClaimPermanence ==
    /\ [][\A k \in Users \X CouponNames :
             claims'[k] < claims[k] =>
                 \E p \in Calls :
                     /\ Pair(p) = k
                     /\ pc[p] = "compensate" /\ pc'[p] = "done"
                     /\ hist[p].created
                     /\ ret'[p] # Nil]_vars
    /\ [](\A p \in Calls : ret[p] = Nil => claims[Pair(p)] = 1)

\* one call returned nil and its document is there, while another call on
\* the same coupon reserved, was refused stock and removed its own document
C23_Witness ==
    \E p, q \in Calls :
        /\ ret[p] = Nil
        /\ claims[Pair(p)] = 1
        /\ req[q].coupon_name = req[p].coupon_name
        /\ hist[q].created
        /\ ret[q] = ErrNoStock
        /\ claims[Pair(q)] = 0
\* ---- C24 ------------------------------------------------------------------
\* C24: errors are surfaced unchanged.  A call of ClaimCoupon or of
\* GetCouponDetails to which the repository returned an error has returned
\* that error; no call whose lookup met a storage fault has returned
\* ErrCouponNotFound; and a GetCouponDetails call that found no coupon of
\* the name has returned ErrCouponNotFound.
C24_ErrorsSurfaced ==
    \A p \in Calls :
        pc[p] = "done" =>
            /\ err[p] # Nil => ret[p] = err[p]
            /\ err[p] = StorageFault => ret[p] # ErrCouponNotFound
            /\ ( /\ direct[p].op = "GetCouponDetails"
                 /\ err[p] = ErrCouponNotFound ) => ret[p] = ErrCouponNotFound
\* ---- C25 ------------------------------------------------------------------
\* C25: retry safety after a storage fault.  When a call that found its
\* coupon has returned a storage fault and is the only call made on that
\* coupon, the pair has a claim document exactly if a unit was taken from
\* the stock: no document without a decrement, no decrement without a
\* document.
C25_RetrySafe ==
    \A p \in Calls :
        ( /\ pc[p] = "done"
          /\ ret[p] = StorageFault
          /\ couponID[p] # NoID
          /\ CallsOn(req[p].coupon_name) = {p} )
        => claims[Pair(p)] =
               initialStock[couponID[p]]
                   - coupons[couponID[p]].remaining_amount
\* ---- C26 ------------------------------------------------------------------
\* C26: replay after ErrNoStock.  The DecrementStock step that finds no stock
\* changes neither collection, and the compensating delete that succeeds
\* after it removes the one document the call's reservation had inserted and
\* nothing else, so the call has added nothing and taken nothing.  When it
\* was the only call on its coupon, both collections are, for that coupon, as
\* before the call: no claim document of the pair and the full stock.
C26_ReplayAfterNoStock ==
    /\ [][\A p \in Calls :
             (pc[p] = "decrement" /\ pc'[p] = "compensate"
                                 /\ err'[p] = ErrNoStock)
             => coupons' = coupons /\ claims' = claims]_vars
    /\ [][\A p \in Calls :
             (pc[p] = "compensate" /\ pc'[p] = "done"
                  /\ err[p] = ErrNoStock /\ ~hist'[p].releaseFailed)
             => /\ ret'[p] = ErrNoStock
                /\ claims[Pair(p)] = 1
                /\ claims' = [claims EXCEPT ![Pair(p)] = 0]
                /\ coupons' = coupons]_vars
    /\ [](\A p \in Calls :
             ( /\ ret[p] = ErrNoStock
               /\ ~hist[p].releaseFailed
               /\ CallsOn(req[p].coupon_name) = {p} )
             => /\ claims[Pair(p)] = 0
                /\ coupons[couponID[p]].remaining_amount
                       = initialStock[couponID[p]])

\* a call was refused for lack of stock and compensated; its repeat for the
\* same pair reserved anew, was refused and compensated as the first was
C26_Witness ==
    \E p, q \in Calls :
        /\ p # q
        /\ Pair(p) = Pair(q)
        /\ ret[p] = ErrNoStock /\ ret[q] = ErrNoStock
        /\ hist[p].created /\ hist[q].created
        /\ ~hist[p].releaseFailed /\ ~hist[q].releaseFailed
        /\ claims[Pair(p)] = 0
        /\ coupons[couponID[p]].remaining_amount = initialStock[couponID[p]]
\* ---- C27 ------------------------------------------------------------------
\* C27: independence of unrelated keys.  With healthy stores, a step changes
\* the claim documents of no pair but that of the call taking the step and
\* the stock of no coupon but that call's; and a call that found its coupon
\* and is the only call on it returns, whatever the calls on the other
\* coupon did and whoever made them, nil if the coupon was created with
\* stock and ErrNoStock if not, leaving the coupon with one unit less and
\* the pair's document, or with neither.
C27_Independence ==
    /\ [][/\ \A k \in Users \X CouponNames :
               claims'[k] # claims[k] =>
                   \E p \in Calls : pc'[p] # pc[p] /\ Pair(p) = k
          /\ \A n \in DOMAIN coupons :
               coupons'[n] # coupons[n] =>
                   \E p \in Calls : pc'[p] # pc[p] /\ couponID[p] = n]_vars
    /\ [](\A p \in Calls :
             ( /\ pc[p] = "done"
               /\ couponID[p] # NoID
               /\ CallsOn(req[p].coupon_name) = {p} )
             => LET c == couponID[p] IN
                IF initialStock[c] >= 1
                THEN /\ ret[p] = Nil
                     /\ coupons[c].remaining_amount = initialStock[c] - 1
                     /\ claims[Pair(p)] = 1
                ELSE /\ ret[p] = ErrNoStock
                     /\ coupons[c].remaining_amount = 0
                     /\ claims[Pair(p)] = 0)

\* one user has claimed both coupons
C27_Witness ==
    \E p, q \in Calls :
        /\ req[p].user_id = req[q].user_id
        /\ req[p].coupon_name # req[q].coupon_name
        /\ ret[p] = Nil /\ ret[q] = Nil
        /\ claims[Pair(p)] = 1 /\ claims[Pair(q)] = 1
\* ---- C28 ------------------------------------------------------------------
\* the CreateCoupon calls made for a name
CreateCalls(name) ==
    {p \in Calls : direct[p].op = "CreateCoupon" /\ direct[p].id = name}

\* C28: CreateCoupon.  The insert of a CreateCoupon(name, amount) call that
\* runs when no coupon has the name returns nil and adds a coupon with
\* amount = remaining_amount = amount and is_active = true, leaving the other
\* coupons as they were; one that runs when a coupon has the name returns
\* ErrCouponAlreadyExists and leaves every coupon, remaining_amount included,
\* as it was.  Of the calls racing on one name at most one returns nil.
C28_CreateCoupon ==
    /\ [][\A p \in Calls :
             (pc[p] = "create" /\ pc'[p] = "done") =>
                 LET name == direct[p].id
                     amount == direct[p].amount IN
                 IF name \notin DOMAIN coupons
                 THEN /\ ret'[p] = Nil
                      /\ DOMAIN coupons' = DOMAIN coupons \cup {name}
                      /\ coupons'[name] = [amount |-> amount,
                                           remaining_amount |-> amount,
                                           is_active |-> TRUE]
                      /\ \A n \in DOMAIN coupons : coupons'[n] = coupons[n]
                 ELSE /\ ret'[p] = ErrCouponAlreadyExists
                      /\ coupons' = coupons]_vars
    /\ [](\A name \in CouponNames :
             /\ Cardinality({p \in CreateCalls(name) : ret[p] = Nil}) <= 1
             /\ \A p \in CreateCalls(name) :
                    pc[p] = "done" =>
                        /\ ret[p] \in {Nil, ErrCouponAlreadyExists}
                        /\ name \in DOMAIN coupons)

\* a coupon created with 2 units has had one claimed; a CreateCoupon call for
\* its name with another amount was refused and the coupon still holds 1 of 2
C28_Witness ==
    \E p, q \in Calls :
        /\ ret[p] = Nil
        /\ couponID[p] \in DOMAIN coupons
        /\ direct[q].op = "CreateCoupon"
        /\ direct[q].id = couponID[p]
        /\ direct[q].amount = 0
        /\ ret[q] = ErrCouponAlreadyExists
        /\ coupons[couponID[p]].amount = 2
        /\ coupons[couponID[p]].remaining_amount = 1
\* ---- C29 ------------------------------------------------------------------
\* C29: status codes of the claim endpoint.  Whatever a ClaimCoupon call has
\* returned, storage faults included, the handler answers 200 for nil, 409
\* for ErrAlreadyClaimed, 400 for ErrNoStock, 404 for ErrCouponNotFound and
\* 500 for anything else; and the four outcomes get four different codes.
C29_StatusCodes ==
    /\ \A p \in Calls :
          (pc[p] = "done" /\ req[p] # NoReq) =>
              LET status == claimCouponStatus(ret[p]) IN
              /\ ret[p] = Nil => status = 200
              /\ ret[p] = ErrAlreadyClaimed => status = 409
              /\ ret[p] = ErrNoStock => status = 400
              /\ ret[p] = ErrCouponNotFound => status = 404
              /\ ret[p] \notin Outcomes => status = 500
    /\ \A e, f \in Outcomes :
          e # f => claimCouponStatus(e) # claimCouponStatus(f)

\* one call was answered 500 for a storage fault, another 400 for no stock
C29_Witness ==
    \E p, q \in Calls :
        /\ ret[p] = StorageFault
        /\ claimCouponStatus(ret[p]) = 500
        /\ ret[q] = ErrNoStock
        /\ claimCouponStatus(ret[q]) = 400
\* ---- C30 ------------------------------------------------------------------
\* C30: stock is monotone.  Every step of ClaimCoupon, GetCouponDetails and
\* CreateCoupon calls, refused ones included, keeps every coupon there is and
\* leaves its remaining_amount as it was or one lower.
C30_StockMonotone ==
    [][\A n \in DOMAIN coupons :
          /\ n \in DOMAIN coupons'
          /\ \/ coupons'[n].remaining_amount = coupons[n].remaining_amount
             \/ coupons'[n].remaining_amount
                    = coupons[n].remaining_amount - 1]_vars

\* a unit was claimed, and a GetCouponDetails call made afterwards reported
\* the stock one lower than the coupon was created with
C30_Witness ==
    \E p, q \in Calls :
        /\ ret[p] = Nil
        /\ direct[q].op = "GetCouponDetails"
        /\ direct[q].id = couponID[p]
        /\ ret[q] = Nil
        /\ direct[q].remaining_amount = initialStock[couponID[p]] - 1
        /\ coupons[couponID[p]].remaining_amount
               = initialStock[couponID[p]] - 1
\* ---- C31 ------------------------------------------------------------------
\* C31: every deducted unit is attributable.  In every reachable state, for
\* every coupon, the number of units taken from the stock since creation is
\* at most the number of claim documents of the coupon.
C31_Attributable ==
    \A n \in DOMAIN coupons :
        initialStock[n] - coupons[n].remaining_amount <= NumRecords(n)
\* ---- C32 ------------------------------------------------------------------
\* C32: amount is immutable.  No step of a ClaimCoupon call (its lookup, its
\* reservation, its DecrementStock, its DeleteClaim), of a GetCouponDetails
\* call or of a CreateCoupon call changes the amount of a coupon that exists.
C32_AmountImmutable ==
    [][\A n \in DOMAIN coupons :
          /\ n \in DOMAIN coupons'
          /\ coupons'[n].amount = coupons[n].amount]_vars

\* on one coupon a DecrementStock took the last unit and the DecrementStock
\* and DeleteClaim of another call ran after it; amount is what it was
\* created with
C32_Witness ==
    \E p, q \in Calls :
        /\ ret[p] = Nil
        /\ ret[q] = ErrNoStock
        /\ couponID[p] = couponID[q]
        /\ hist[q].decremented
        /\ coupons[couponID[p]].amount = initialStock[couponID[p]]
        /\ coupons[couponID[p]].remaining_amount = 0
\* ---- C33 ------------------------------------------------------------------
\* C33: AlreadyClaimed is truthful.  Once every call has returned, each call
\* that returned ErrAlreadyClaimed has a call of the same user on the same
\* coupon that returned nil.
C33_AlreadyClaimedTruthful ==
    AllReturned =>
        \A p \in Calls :
            ret[p] = ErrAlreadyClaimed =>
                \E q \in Calls : Pair(q) = Pair(p) /\ ret[q] = Nil
\* ---- C34 ------------------------------------------------------------------
\* C34: NoStock is truthful and final.  The DecrementStock of a ClaimCoupon
\* call answers ErrNoStock only in a state where the coupon's
\* remaining_amount is 0, and changes nothing; in every later state the
\* remaining_amount of that coupon is 0; and a call returns ErrNoStock only
\* after its own DecrementStock answered so.
C34_NoStockTruthful ==
    /\ [][\A p \in Calls :
             (pc[p] = "decrement" /\ err'[p] = ErrNoStock)
             => /\ coupons[couponID[p]].remaining_amount = 0
                /\ coupons' = coupons]_vars
    /\ [](\A p \in Calls :
             (err[p] = ErrNoStock \/ ret[p] = ErrNoStock)
             => /\ hist[p].decremented
                /\ err[p] = ErrNoStock
                /\ couponID[p] \in DOMAIN coupons
                /\ coupons[couponID[p]].remaining_amount = 0)

\* a call was refused with ErrNoStock after another user took the only unit
\* of the coupon
C34_Witness ==
    \E p, q \in Calls :
        /\ ret[p] = ErrNoStock
        /\ ret[q] = Nil
        /\ couponID[p] = couponID[q]
        /\ req[p].user_id # req[q].user_id
        /\ initialStock[couponID[p]] = 1
        /\ claims[Pair(p)] = 0
        /\ claims[Pair(q)] = 1
\* ---- C35 ------------------------------------------------------------------
\* C35: status snapshot consistency.  Every response of GetCouponDetails has
\* at most as many entries in claimed_by as units deducted according to the
\* same response, amount - remaining_amount.
C35_SnapshotConsistent ==
    \A p \in Calls :
        (direct[p].op = "GetCouponDetails" /\ ret[p] = Nil)
        => SumOver(direct[p].claimed_by, Users)
               <= direct[p].amount - direct[p].remaining_amount
\* ---- C36 ------------------------------------------------------------------
\* C36: compensation on any decrement error.  A call whose DecrementStock
\* returned an error, ErrNoStock or a driver error, does not return at that
\* step: its next step is DeleteClaim for its own pair, which touches no
\* other pair and, when it succeeds, removes the pair's document; with that
\* step the call returns the error DecrementStock gave it, whether
\* DeleteClaim succeeded or failed.  A call whose DecrementStock returned no
\* error returns nil at once.
C36_CompensateOnError ==
    /\ [][\A p \in Calls :
             /\ (pc[p] = "decrement" /\ pc'[p] # "decrement")
                => IF err'[p] # Nil
                   THEN pc'[p] = "compensate" /\ ret'[p] = Pending
                   ELSE pc'[p] = "done" /\ ret'[p] = Nil
             /\ (pc[p] = "compensate" /\ pc'[p] # "compensate")
                => /\ pc'[p] = "done"
                   /\ ret'[p] = err[p]
                   /\ \A k \in Users \X CouponNames :
                          k # Pair(p) => claims'[k] = claims[k]
                   /\ claims' \in
                          {claims,
                           DeleteClaim(claims, req[p].user_id,
                                       couponID[p]).claims}
                   /\ ~hist'[p].releaseFailed
                      => claims' = DeleteClaim(claims, req[p].user_id,
                                               couponID[p]).claims]_vars
    /\ [](\A p \in Calls :
             /\ pc[p] = "compensate"
                => err[p] \in {ErrNoStock, StorageFault} /\ hist[p].created
             /\ (pc[p] = "done" /\ hist[p].decremented) => ret[p] = err[p])

\* one call met ErrNoStock and its DeleteClaim failed, another met a driver
\* error at DecrementStock and its DeleteClaim removed its document; each
\* returned the error its DecrementStock gave
C36_Witness ==
    \E p, q \in Calls :
        /\ err[p] = ErrNoStock
        /\ hist[p].releaseFailed
        /\ ret[p] = ErrNoStock
        /\ err[q] = StorageFault
        /\ ~hist[q].releaseFailed
        /\ ret[q] = StorageFault
        /\ hist[q].decremented
        /\ claims[Pair(q)] = 0
\* ---- C37 ------------------------------------------------------------------
\* C37: is_active and expired_at do not matter to ClaimCoupon.  Take any step
\* of a ClaimCoupon call and any coupons collection that differs from the
\* present one in is_active and expired_at only: run against that collection,
\* the step's command gives the call the same result (the same coupon id or
\* error from the lookup, the same error or success from DecrementStock) and
\* leaves the same amount and remaining_amount in every coupon, changing no
\* flag; the reservation and the release do not touch the coupons at all.
\* Two runs of the same calls in the same order that start from collections
\* differing in those fields only therefore agree step by step in outcomes,
\* remaining_amount and claim documents.
C37_FlagsIrrelevant ==
    [][\A p \in Calls :
          /\ (pc[p] = "idle" /\ pc'[p] # "idle")
             => /\ coupons' = coupons
                /\ \A cs \in FlagVariants(coupons) :
                      LET r == GetCouponByName(cs, req'[p].coupon_name) IN
                         /\ r.id = couponID'[p]
                         /\ r.err = IF pc'[p] = "done" THEN ret'[p] ELSE Nil
          /\ (pc[p] = "reserve" /\ pc'[p] # "reserve")
             => coupons' = coupons
          /\ (pc[p] = "decrement" /\ pc'[p] # "decrement")
             => \A cs \in FlagVariants(coupons) :
                   LET r == DecrementStock(cs, couponID[p], 1) IN
                      /\ r.err = IF pc'[p] = "done" THEN ret'[p]
                                                   ELSE err'[p]
                      /\ Unflagged(r.coupons) = Unflagged(coupons')
                      /\ \A n \in DOMAIN cs :
                             /\ r.coupons[n].is_active = cs[n].is_active
                             /\ r.coupons[n].expired_at = cs[n].expired_at
          /\ (pc[p] = "compensate" /\ pc'[p] # "compensate")
             => coupons' = coupons /\ ret'[p] = err[p]]_vars

\* two coupons of the same stock, one inactive and expired, the other active
\* and not expired: a call on each took a unit
C37_Witness ==
    \E p, q \in Calls :
        /\ ret[p] = Nil
        /\ ret[q] = Nil
        /\ couponID[p] # couponID[q]
        /\ ~coupons[couponID[p]].is_active
        /\ coupons[couponID[p]].expired_at = "past"
        /\ coupons[couponID[q]].is_active
        /\ coupons[couponID[q]].expired_at = "future"
        /\ initialStock[couponID[p]] = initialStock[couponID[q]]
        /\ coupons[couponID[p]].remaining_amount
               = coupons[couponID[q]].remaining_amount
        /\ claims[Pair(p)] = 1
        /\ claims[Pair(q)] = 1
====
